---- MODULE Spec2Model ----
(***************************************************************************)
(* Model of the streaming session orchestrator of backend/routes/          *)
(* streaming.js: the lives and transmissoes tables, the remote ffmpeg      *)
(* processes reached over SSH, and the request handlers, each split at the *)
(* awaits where another request can run in between.                        *)
(***************************************************************************)
EXTENDS Integers, Sequences, FiniteSets, Bags, TLC

\* ----------------------------------------------------------------- bounds
\* Number of HTTP requests issued in one behaviour.
MaxReq == 3
\* Last value of the wall clock read by NOW().
MaxTime == 1
\* Largest number of platforms in the config of one startSMILStream call.
MaxPlatforms == 3
\* Number of start-live requests in one behaviour of SpecBuilder.
MaxBuilds == 2

\* ------------------------------------------------------------ input sets
Owners == {1}
Tipos == {"youtube"}
\* servidor_stm of a start-live request: the source URL.
Sources == {"rtmp://source/a"}
StreamTypes == {"playlist", "obs", "other"}
\* The required body fields a request may lack: none, or one of them.
StartLiveMissing ==
  {{}, {"servidor_rtmp"}, {"servidor_rtmp_chave"}, {"data_fim"}}
StartMissing == {{}, {"titulo"}, {"playlist_id"}}
Signals == {"SIGINT", "SIGTERM"}

\* A nullable DATETIME column: <<>> is NULL, <<t>> is the time t.
Null == <<>>
At(t) == <<t>>

\* -------------------------------------------------------------- variables
VARIABLES
  lives,               \* table lives: codigo -> row
  nextLive,            \* AUTO_INCREMENT of lives
  transmissoes,        \* table transmissoes: codigo -> row
  nextTrans,           \* AUTO_INCREMENT of transmissoes
  playlists,           \* table playlists: id -> row
  streamings,          \* table streamings: set of rows
  procs,               \* ffmpeg screen sessions running on the remote host
  activeTransmissions, \* the in-memory Map of streaming.js (its keys)
  inflight,            \* bag of the requests suspended at an await
  issued,              \* number of requests received so far
  last,                \* the request answered most recently, with its answer
  now,                 \* wall clock
  exited,              \* process.exit was called
  wowza,               \* the media server and the startSMILStream call
  stats,               \* the incoming streams of the media server and the
                       \* statistics call of WowzaStreamingService
  control,             \* the streaming-control routes and their service
  videos,              \* table videos: id -> row
  limits               \* the checkUserLimits call of WowzaStreamingService

\* The state of the routes of streaming.js.
core == <<lives, nextLive, transmissoes, nextTrans, playlists, streamings,
          procs, activeTransmissions, inflight, issued, last, now, exited,
          videos>>

vars == <<core, wowza, stats, control, limits>>

\* The state of the services, and what the routes of streaming.js never
\* write: the services and the table videos.
services == <<wowza, stats, control, limits>>
outside == <<services, videos>>

\* NOW(): the clock as read by the statement that a step executes; time may
\* have passed since the last statement that read it.
NOW == now'
Clock == now' \in now..MaxTime

\* ------------------------------------------------------------- requests
NoResp ==
  [code |-> 0, success |-> FALSE, keys |-> {}, is_live |-> FALSE,
   stream_type |-> "none", sid |-> 0, seen |-> "none", cleaned |-> 0]

Resp(code, success, keys) ==
  [NoResp EXCEPT !.code = code, !.success = success, !.keys = keys]

NewReq(kind, owner) ==
  [kind |-> kind, owner |-> owner, pc |-> "begin", id |-> 0, tipo |-> "none",
   ttype |-> "none", tid |-> 0, count |-> 0, err |-> "none", log |-> <<>>,
   smil |-> FALSE, missing |-> {}, stm |-> "none", during |-> "none",
   own |-> FALSE, sent |-> 0, vids |-> <<>>, i |-> 0, resp |-> NoResp]

Done(rq, resp) == [rq EXCEPT !.pc = "done", !.resp = resp]

Put(b, rq) == b (+) SetToBag({rq})
Take(b, rq) == b (-) SetToBag({rq})
Waiting(kind, pc) == {rq \in BagToSet(inflight) : rq.kind = kind /\ rq.pc = pc}

\* The handler goes on to its next await.
Goto(rq, rq2) ==
  /\ inflight' = Put(Take(inflight, rq), rq2)
  /\ UNCHANGED <<issued, last>>

\* The handler sends its response and ends.
Answer(rq, resp) ==
  /\ inflight' = Take(inflight, rq)
  /\ last' = Done(rq, resp)
  /\ UNCHANGED issued

\* The same, fin being the request with what its last step recorded.
AnswerAs(rq, fin, resp) ==
  /\ inflight' = Take(inflight, rq)
  /\ last' = Done(fin, resp)
  /\ UNCHANGED issued

\* A request arrives and is suspended at its first await after the entry.
Suspend(rq) ==
  /\ inflight' = Put(inflight, rq)
  /\ issued' = issued + 1
  /\ UNCHANGED last

\* A request arrives and is answered before any other request can run.
AnswerAtOnce(rq, resp) ==
  /\ last' = Done(rq, resp)
  /\ issued' = issued + 1
  /\ UNCHANGED inflight

CanIssue == ~exited /\ issued < MaxReq

\* --------------------------------------------------------- SQL fragments
\* UPDATE <table> SET ... WHERE codigo = id (no such row: nothing happens).
UpdateWhere(tab, id, row) ==
  [c \in DOMAIN tab |-> IF c = id THEN row ELSE tab[c]]

\* DELETE FROM <table> WHERE codigo = id.
DeleteWhere(tab, id) == [c \in DOMAIN tab \ {id} |-> tab[c]]

\* codigo_stm = ? OR codigo_stm IN (SELECT codigo FROM streamings
\* WHERE codigo_cliente = ?)
OwnedBy(stm, userId) ==
  \/ stm = userId
  \/ stm \in {s.codigo : s \in {x \in streamings : x.codigo_cliente = userId}}

\* codigo_stm = ? OR codigo_stm IN (SELECT codigo_cliente FROM streamings
\* WHERE codigo_cliente = ?)
OwnedByCliente(stm, userId) ==
  \/ stm = userId
  \/ stm \in {s.codigo_cliente :
                s \in {x \in streamings : x.codigo_cliente = userId}}

\* ORDER BY data_inicio DESC LIMIT 1 over the rows ids of tab.
Latest(tab, ids) ==
  {c \in ids : \A d \in ids : tab[d].data_inicio[1] <= tab[c].data_inicio[1]}

\* ---------------------------------------------------- command builder
\* The catalog of platforms: id -> special_config ("none" when absent).
platforms ==
  [id \in {"youtube", "facebook", "twitch", "periscope", "vimeo", "steam",
           "tiktok", "kwai", "custom"} |->
     IF id \in {"tiktok", "kwai"} THEN "vertical_crop" ELSE "none"]

\* servidor_live: servidor_rtmp and servidor_rtmp_chave joined by a slash.
ServidorLive == "rtmp://destination/key"

\* The ffmpeg command line of a live, as its words: the tiktok and kwai
\* branch crops to 9:16 and encodes; facebook and every other tipo copy
\* the streams.
CropFilter == "crop=ih*(9/16):ih"

FfmpegCommand_TiktokOnly(stm, live, tipo) ==
  IF tipo = "tiktok"
  THEN <<"/usr/local/bin/ffmpeg", "-re", "-i", stm, "-vf", CropFilter,
         "-crf", "21", "-r", "24", "-g", "48", "-b:v", "3000000",
         "-b:a", "128k", "-ar", "44100", "-acodec", "aac",
         "-vcodec", "libx264", "-preset", "ultrafast",
         "-bufsize", "(6.000*3000000)/8", "-maxrate", "3500000",
         "-threads", "1", "-f", "flv", live>>
  ELSE <<"/usr/local/bin/ffmpeg", "-re", "-i", stm, "-c:v", "copy",
         "-c:a", "copy", "-bsf:a", "aac_adtstoasc", "-preset", "ultrafast",
         "-strict", "experimental", "-threads", "1", "-f", "flv", live>>
FfmpegCommand(stm, live, tipo) ==
  IF tipo = "facebook"
  THEN <<"/usr/local/bin/ffmpeg", "-re", "-i", stm, "-c:v", "copy",
         "-c:a", "copy", "-bsf:a", "aac_adtstoasc", "-preset", "ultrafast",
         "-strict", "experimental", "-threads", "1", "-f", "flv", live>>
  ELSE IF tipo = "tiktok" \/ tipo = "kwai"
  THEN <<"/usr/local/bin/ffmpeg", "-re", "-i", stm, "-vf", CropFilter,
         "-crf", "21", "-r", "24", "-g", "48", "-b:v", "3000000",
         "-b:a", "128k", "-ar", "44100", "-acodec", "aac",
         "-vcodec", "libx264", "-preset", "ultrafast",
         "-bufsize", "(6.000*3000000)/8", "-maxrate", "3500000",
         "-threads", "1", "-f", "flv", live>>
  ELSE <<"/usr/local/bin/ffmpeg", "-re", "-i", stm, "-c:v", "copy",
         "-c:a", "copy", "-bsf:a", "aac_adtstoasc", "-preset", "ultrafast",
         "-strict", "experimental", "-threads", "1", "-f", "flv", live>>

\* ------------------------------------------------------- remote host
\* The screen session started for a live: named {userLogin}_{codigoLive},
\* its ffmpeg command line carries the login and the platform's URL.
Proc(login, id, tipo, stm) ==
  [login |-> login, id |-> id, tipo |-> tipo, stm |-> stm,
   cmd |-> FfmpegCommand(stm, ServidorLive, tipo)]

\* ps aux | grep ffmpeg | grep rtmp | grep userLogin | grep tipo | wc -l
ProcessCount(ps, login, tipo) ==
  Cardinality({p \in ps : p.login = login /\ p.tipo = tipo})

\* Whether the screen session {userLogin}_{liveId} is running.
OwnProcess(ps, login, id) == \E p \in ps : p.login = login /\ p.id = id

\* screen -ls | grep -o '[0-9]*\.{userLogin}_{liveId}\>' | xargs ... quit
KillScreen(ps, login, id) == {p \in ps : ~(p.login = login /\ p.id = id)}

\* echo OK; screen -ls | grep ... | xargs -I{} screen -X -S {} quit: the
\* command succeeds whether or not a session matched (xargs then runs
\* nothing).
KillSucceeds_OnlyIfFound(ps, login, id) ==
  \E p \in ps : p.login = login /\ p.id = id
KillSucceeds(ps, login, id) == TRUE

\* The media server (its applications, connected stream files and push
\* publish entries) and the one call of startSMILStream: no call yet.
WowzaIdle ==
  [apps |-> {}, publishers |-> {}, pushes |-> {},
   pc |-> "idle", login |-> 0, platforms |-> <<>>, i |-> 0,
   checked |-> "none", created |-> "none",
   publisher |-> "none", attempts |-> <<>>,
   result |-> [success |-> FALSE, keys |-> {}, failed |-> {}]]

\* The statistics side of WowzaStreamingService: the incoming streams of
\* the media server in the order of its list, and one statistics call
\* (fn, userId) with its position, the list its fetch saw, the outcome of
\* its fetch ("db" when the lookup before it failed), and what the caller
\* got: the value ret, or a rejection.
StatsNone ==
  [isLive |-> FALSE, isActive |-> FALSE, streamName |-> <<>>,
   viewers |-> 0, bitrate |-> 0, uptime |-> <<0, 0, 0>>,
   success |-> FALSE, activeStreams |-> <<>>]
StatsIdle ==
  [incoming |-> <<>>, pc |-> "idle", fn |-> "none", userId |-> 0,
   login |-> <<>>, seen |-> <<>>, outcome |-> "none",
   ret |-> StatsNone, rejected |-> FALSE]

\* The streaming-control routes: the request being handled (op, login,
\* req.user), the calls made to StreamingControlService so far, and the
\* answer.
ControlIdle ==
  [pc |-> "idle", op |-> "none", login |-> "none",
   user |-> [type |-> "none", tipo |-> "none"],
   calls |-> <<>>, status |-> 0, n |-> 0]

\* No checkUserLimits call yet.
LimitsIdle ==
  [pc |-> "idle", bitrate |-> 0, requested |-> 0,
   max |-> 0, allowed |-> 0, warnings |-> 0]

\* ------------------------------------------------------------------ Init
Init ==
  /\ lives = <<>>
  /\ nextLive = 1
  /\ transmissoes = <<>>
  /\ nextTrans = 1
  /\ playlists = (1 :> [codigo_stm |-> 1, total_videos |-> 1]
                  @@ 2 :> [codigo_stm |-> 2, total_videos |-> 1]
                  @@ 3 :> [codigo_stm |-> 1, total_videos |-> 0])
  /\ streamings = {[codigo |-> 1, codigo_cliente |-> 1],
                   [codigo |-> 2, codigo_cliente |-> 2]}
  /\ procs = {}
  /\ activeTransmissions = {}
  /\ inflight = EmptyBag
  /\ issued = 0
  /\ last = NewReq("none", 0)
  /\ now = 0
  /\ exited = FALSE
  /\ wowza = WowzaIdle
  /\ stats = StatsIdle
  /\ control = ControlIdle
  /\ videos = (1 :> [codigo_cliente |-> 1, playlist_id |-> 1]
               @@ 2 :> [codigo_cliente |-> 2, playlist_id |-> 2]
               @@ 3 :> [codigo_cliente |-> 1, playlist_id |-> 0])
  /\ limits = LimitsIdle

Range(f) == {f[x] : x \in DOMAIN f}

\* ---------------------------------------------------- POST /start-live
\* INSERT INTO lives (...) VALUES (..., '2'): data_fim is the end date of
\* the request (mandatory), beyond the horizon of the clock.
PlannedEnd == MaxTime + 1

NewLive(userId, tipo) ==
  [codigo_stm |-> userId, tipo |-> tipo, status |-> "2",
   data_inicio |-> At(NOW), data_fim |-> At(PlannedEnd)]

\* if (processCount > 0)
VerifyOk_NoCheck(count) == count >= 0
VerifyOk(count) == count > 0

\* UPDATE lives SET status = "1", data_inicio = NOW() WHERE codigo = ?
MarkLive(row) == [row EXCEPT !.status = "1", !.data_inicio = At(NOW)]

\* UPDATE lives SET status = "3" WHERE codigo = ? (no process was found)
MarkFailed_SetsEnd(row) == [row EXCEPT !.status = "3", !.data_fim = At(NOW)]
MarkFailed(row) == [row EXCEPT !.status = "3"]

\* UPDATE lives SET status = "3" WHERE codigo = ? (in catch (sshError))
MarkError_Forgotten(row) == row
MarkError(row) == [row EXCEPT !.status = "3"]

\* if (!servidor_rtmp || !servidor_rtmp_chave || !data_fim)
StartLiveValid_EndOptional(missing) ==
  missing \cap {"servidor_rtmp", "servidor_rtmp_chave"} = {}
StartLiveValid(missing) ==
  missing \cap {"servidor_rtmp", "servidor_rtmp_chave", "data_fim"} = {}

\* return res.status(400).json({ success: false, error: ... })
StartLiveInvalid(o, missing) ==
  /\ CanIssue
  /\ ~StartLiveValid(missing)
  /\ AnswerAtOnce([NewReq("start_live", o) EXCEPT !.missing = missing],
                  Resp(400, FALSE, {"error"}))
  /\ UNCHANGED <<outside, lives, nextLive, transmissoes, nextTrans, playlists,
                 streamings, procs, activeTransmissions, now, exited>>

\* The INSERT, and the answer of a scheduled (not immediate) live.
StartLiveBegin(o, tipo, imm, missing, stm) ==
  /\ Clock
  /\ CanIssue
  /\ StartLiveValid(missing)
  /\ lives' = lives @@ (nextLive :> NewLive(o, tipo))
  /\ nextLive' = nextLive + 1
  /\ LET rq == [NewReq("start_live", o) EXCEPT
                  !.tipo = tipo, !.id = nextLive, !.missing = missing,
                  !.stm = stm]
     IN IF imm
        THEN Suspend([rq EXCEPT !.pc = "ssh_start"])
        ELSE AnswerAtOnce(rq, Resp(200, TRUE, {"message", "live_id", "status"}))
  /\ UNCHANGED <<outside, transmissoes, nextTrans, playlists, streamings, procs,
                 activeTransmissions, exited>>

\* await SSHManager.executeCommand(serverId, `echo OK; ${screenCommand}`)
StartLiveSSH(rq) ==
  /\ ~exited
  /\ rq \in Waiting("start_live", "ssh_start")
  /\ \/ /\ procs' = procs \cup {Proc(rq.owner, rq.id, rq.tipo, rq.stm)}
        /\ Goto(rq, [rq EXCEPT !.pc = "wait", !.log = Append(@, "start")])
     \/ /\ Goto(rq, [rq EXCEPT !.pc = "catch", !.err = "ssh"])
        /\ UNCHANGED procs
  /\ UNCHANGED <<outside, lives, nextLive, transmissoes, nextTrans, playlists,
                 streamings, activeTransmissions, now, exited>>

\* await new Promise(resolve => setTimeout(resolve, 5000))
StartLiveSettle(rq) ==
  /\ ~exited
  /\ rq \in Waiting("start_live", "wait")
  /\ Goto(rq, [rq EXCEPT !.pc = "check", !.log = Append(@, "settle")])
  /\ UNCHANGED <<outside, lives, nextLive, transmissoes, nextTrans, playlists,
                 streamings, procs, activeTransmissions, now, exited>>

\* checkResult = await SSHManager.executeCommand(serverId, checkCommand)
StartLiveCheck(rq) ==
  /\ ~exited
  /\ rq \in Waiting("start_live", "check")
  /\ \/ Goto(rq, [rq EXCEPT !.pc = "update",
                            !.count = ProcessCount(procs, rq.owner, rq.tipo),
                            !.own = OwnProcess(procs, rq.owner, rq.id),
                            !.log = Append(@, "check")])
     \/ Goto(rq, [rq EXCEPT !.pc = "catch", !.err = "ssh"])
  /\ UNCHANGED <<outside, lives, nextLive, transmissoes, nextTrans, playlists,
                 streamings, procs, activeTransmissions, now, exited>>

\* The branch on processCount. The success branch answers. The failure
\* branch updates the row and then reads playerUrls, which is declared in
\* the success branch only: a ReferenceError, caught by catch (sshError).
StartLiveUpdate(rq) ==
  /\ ~exited
  /\ rq \in Waiting("start_live", "update")
  /\ IF VerifyOk(rq.count)
     THEN /\ Clock
          /\ lives' = UpdateWhere(lives, rq.id, MarkLive(lives[rq.id]))
          /\ Answer(rq, Resp(200, TRUE,
                             {"message", "live_id", "status", "player_urls"}))
     ELSE /\ UNCHANGED now
          /\ lives' = UpdateWhere(lives, rq.id, MarkFailed(lives[rq.id]))
          /\ Goto(rq, [rq EXCEPT !.pc = "catch", !.err = "reference"])
  /\ UNCHANGED <<outside, nextLive, transmissoes, nextTrans, playlists, streamings,
                 procs, activeTransmissions, exited>>

\* catch (sshError): mark the row as error and answer 500 with details.
StartLiveCatch_Retries(rq) ==
  /\ ~exited
  /\ rq \in Waiting("start_live", "catch")
  /\ Goto(rq, [rq EXCEPT !.pc = "ssh_start"])
  /\ UNCHANGED <<outside, lives, nextLive, transmissoes, nextTrans, playlists,
                 streamings, procs, activeTransmissions, now, exited>>
StartLiveCatch(rq) ==
  /\ ~exited
  /\ rq \in Waiting("start_live", "catch")
  /\ lives' = UpdateWhere(lives, rq.id, MarkError(lives[rq.id]))
  /\ Answer(rq, Resp(500, FALSE, {"error", "details"}))
  /\ UNCHANGED <<outside, nextLive, transmissoes, nextTrans, playlists, streamings,
                 procs, activeTransmissions, now, exited>>

\* ------------------------------------------------ POST /stop-live/:id
\* UPDATE lives SET status = "0", data_fim = NOW() WHERE codigo = ?
MarkStopped(row) == [row EXCEPT !.status = "0", !.data_fim = At(NOW)]

\* SELECT * FROM lives WHERE codigo = ? AND codigo_stm = ?
LiveOf_AnyOwner(id, userId) == {c \in DOMAIN lives : c = id}
LiveOf(id, userId) ==
  {c \in DOMAIN lives : c = id /\ lives[c].codigo_stm = userId}

\* catch (sshError) of stop-live: answers 500, writes nothing to the store.
StopLiveCatch_MarksStopped(tab, id) ==
  [c \in DOMAIN tab |-> IF c = id THEN [tab[c] EXCEPT !.status = "0"] ELSE tab[c]]
StopLiveCatch(tab, id) == tab

\* during: where the start-live request of the same live stood when the
\* stop-live request arrived ("none": it was not in flight).
StartStage(id) ==
  LET starting == {s \in BagToSet(inflight) : s.kind = "start_live" /\ s.id = id}
  IN IF starting = {} THEN "none" ELSE (CHOOSE s \in starting : TRUE).pc

StopLiveBegin(o, id) ==
  /\ CanIssue
  /\ LET rq == [NewReq("stop_live", o) EXCEPT !.id = id]
     IN IF LiveOf(id, o) = {}
        THEN AnswerAtOnce(rq, Resp(404, FALSE, {"error"}))
        ELSE Suspend([rq EXCEPT !.pc = "kill", !.tipo = lives[id].tipo,
                                !.during = StartStage(id)])
  /\ UNCHANGED <<outside, lives, nextLive, transmissoes, nextTrans, playlists,
                 streamings, procs, activeTransmissions, now, exited>>

\* await SSHManager.executeCommand(serverId, `echo OK; ${killCommand}`)
StopLiveKill(rq) ==
  /\ ~exited
  /\ rq \in Waiting("stop_live", "kill")
  /\ \/ /\ KillSucceeds(procs, rq.owner, rq.id)
        /\ procs' = KillScreen(procs, rq.owner, rq.id)
        /\ Goto(rq, [rq EXCEPT
                       !.pc = "update", !.log = Append(@, "kill"),
                       !.count = Cardinality(procs \ KillScreen(procs, rq.owner,
                                                               rq.id))])
        /\ UNCHANGED lives
     \/ /\ ~KillSucceeds(procs, rq.owner, rq.id)
        /\ lives' = StopLiveCatch(lives, rq.id)
        /\ AnswerAs(rq, [rq EXCEPT !.err = "exit"],
                  Resp(500, FALSE, {"error", "details"}))
        /\ UNCHANGED procs
     \/ /\ lives' = StopLiveCatch(lives, rq.id)
        /\ AnswerAs(rq, [rq EXCEPT !.err = "ssh"],
                  Resp(500, FALSE, {"error", "details"}))
        /\ UNCHANGED procs
  /\ UNCHANGED <<outside, nextLive, transmissoes, nextTrans, playlists, streamings,
                 activeTransmissions, now, exited>>

StopLiveUpdate(rq) ==
  /\ Clock
  /\ ~exited
  /\ rq \in Waiting("stop_live", "update")
  /\ lives' = UpdateWhere(lives, rq.id, MarkStopped(lives[rq.id]))
  /\ activeTransmissions' =
       activeTransmissions \ {[userId |-> rq.owner, liveId |-> rq.id]}
  /\ Answer(rq, Resp(200, TRUE, {"message", "live_id", "platform"}))
  /\ UNCHANGED <<outside, nextLive, transmissoes, nextTrans, playlists, streamings,
                 procs, exited>>

\* ---------------------------------------------- DELETE /remove-live/:id
RemoveLiveBegin(o, id) ==
  /\ CanIssue
  /\ LET rq == [NewReq("remove_live", o) EXCEPT !.id = id]
     IN IF LiveOf(id, o) = {}
        THEN AnswerAtOnce(rq, Resp(404, FALSE, {"error"}))
        ELSE Suspend([rq EXCEPT !.pc = "kill"])
  /\ UNCHANGED <<outside, lives, nextLive, transmissoes, nextTrans, playlists,
                 streamings, procs, activeTransmissions, now, exited>>

RemoveLiveKill(rq) ==
  /\ ~exited
  /\ rq \in Waiting("remove_live", "kill")
  /\ \/ /\ procs' = KillScreen(procs, rq.owner, rq.id)
        /\ Goto(rq, [rq EXCEPT !.pc = "delete", !.log = Append(@, "kill")])
     \/ /\ AnswerAs(rq, [rq EXCEPT !.err = "ssh"],
                  Resp(500, FALSE, {"error", "details"}))
        /\ UNCHANGED procs
  /\ UNCHANGED <<outside, lives, nextLive, transmissoes, nextTrans, playlists,
                 streamings, activeTransmissions, now, exited>>

RemoveLiveDelete(rq) ==
  /\ ~exited
  /\ rq \in Waiting("remove_live", "delete")
  /\ lives' = DeleteWhere(lives, rq.id)
  /\ activeTransmissions' =
       activeTransmissions \ {[userId |-> rq.owner, liveId |-> rq.id]}
  /\ Answer(rq, Resp(200, TRUE, {"message", "live_id"}))
  /\ UNCHANGED <<outside, nextLive, transmissoes, nextTrans, playlists, streamings,
                 procs, now, exited>>

\* ----------------------------------------------------------- POST /start
\* SELECT id, nome, total_videos FROM playlists WHERE id = ? AND (owned)
PlaylistOf(pl, userId) ==
  {p \in DOMAIN playlists : p = pl /\ OwnedBy(playlists[p].codigo_stm, userId)}

\* SELECT codigo FROM transmissoes WHERE (owned) AND status = "ativa"
ActiveTransmissions_Paused(userId) ==
  {c \in DOMAIN transmissoes :
     OwnedBy(transmissoes[c].codigo_stm, userId)
     /\ transmissoes[c].status = "pausada"}
ActiveTransmissions(userId) ==
  {c \in DOMAIN transmissoes :
     OwnedBy(transmissoes[c].codigo_stm, userId)
     /\ transmissoes[c].status = "ativa"}

\* INSERT INTO transmissoes (...) VALUES (?, ?, ?, ?, 'ativa', NOW(), ...)
NewTransmission(userId, pl) ==
  [codigo_stm |-> userId, codigo_playlist |-> pl, status |-> "ativa",
   data_inicio |-> At(NOW), data_fim |-> Null]

\* if (!titulo || !playlist_id)
StartValid_TitleOptional(missing) == missing \cap {"playlist_id"} = {}
StartValid(missing) == missing \cap {"titulo", "playlist_id"} = {}

\* return res.status(400).json({ success: false, error: ... })
PlaylistStartInvalid(o, missing) ==
  /\ CanIssue
  /\ ~StartValid(missing)
  /\ AnswerAtOnce([NewReq("start", o) EXCEPT !.missing = missing],
                  Resp(400, FALSE, {"error"}))
  /\ UNCHANGED <<outside, lives, nextLive, transmissoes, nextTrans, playlists,
                 streamings, procs, activeTransmissions, now, exited>>

\* The playlist lookup and the check for an active transmission.
PlaylistStartBegin(o, pl, missing) ==
  /\ CanIssue
  /\ StartValid(missing)
  /\ LET rq == [NewReq("start", o) EXCEPT !.tid = pl, !.missing = missing]
     IN IF PlaylistOf(pl, o) = {}
        THEN AnswerAtOnce(rq, Resp(404, FALSE, {"error"}))
        ELSE IF playlists[pl].total_videos = 0
        THEN AnswerAtOnce(rq, Resp(400, FALSE, {"error"}))
        ELSE IF ActiveTransmissions(o) # {}
        THEN AnswerAtOnce([rq EXCEPT !.err = "conflict"],
                          Resp(400, FALSE, {"error"}))
        ELSE Suspend([rq EXCEPT !.pc = "insert"])
  /\ UNCHANGED <<outside, lives, nextLive, transmissoes, nextTrans, playlists,
                 streamings, procs, activeTransmissions, now, exited>>

\* The INSERT, the update of the SMIL file (its failure is only logged) and
\* the answer.
PlaylistStartInsert(rq) ==
  /\ Clock
  /\ ~exited
  /\ rq \in Waiting("start", "insert")
  /\ transmissoes' =
       transmissoes @@ (nextTrans :> NewTransmission(rq.owner, rq.tid))
  /\ nextTrans' = nextTrans + 1
  /\ AnswerAs(rq, [rq EXCEPT !.id = nextTrans, !.smil = TRUE],
            Resp(200, TRUE, {"message", "transmission", "player_urls",
                             "wowza_data"}))
  /\ UNCHANGED <<outside, lives, nextLive, playlists, streamings, procs,
                 activeTransmissions, exited>>

\* ------------------------------------------------------------ POST /stop
\* UPDATE transmissoes SET status = "finalizada", data_fim = NOW() WHERE ...
MarkFinalizada(row) == [row EXCEPT !.status = "finalizada", !.data_fim = At(NOW)]

\* SELECT codigo FROM lives WHERE (owned) AND status = "1"
ActiveLives(userId) ==
  {c \in DOMAIN lives :
     OwnedBy(lives[c].codigo_stm, userId) /\ lives[c].status = "1"}

\* const transmissionId = transmission_id || transmissionRows[0].codigo
StopTarget(tid, first) == IF tid # 0 THEN tid ELSE first

\* const sendResponse = (data) => { if (!responseSent) { ... res.json } }
SendResponse(rq, resp) ==
  IF rq.sent = 0 THEN [rq EXCEPT !.sent = 1, !.resp = resp] ELSE rq

\* catch (error): if (!responseSent) res.status(500).json(...)
StopCatch_Silent(rq) == [rq EXCEPT !.err = "db"]
StopCatch(rq) ==
  IF rq.sent = 0
  THEN [rq EXCEPT !.err = "db", !.sent = @ + 1,
                  !.resp = Resp(500, FALSE, {"error"})]
  ELSE [rq EXCEPT !.err = "db"]

\* stream_type 'playlist' (or none), 'obs', anything else; transmission_id
\* is tid, 0 when the request carries none. The SELECT gives the rows, or
\* throws. (Where the handler does not read transmission_id, the request
\* is taken without one.)
StopBegin(o, ttype, tid) ==
  /\ CanIssue
  /\ LET rq == [NewReq("stop", o) EXCEPT !.ttype = ttype, !.tid = tid]
         rows == IF ttype = "playlist" THEN ActiveTransmissions(o)
                 ELSE IF ttype = "obs" THEN ActiveLives(o) ELSE {}
         none == SendResponse(rq, Resp(200, TRUE, {"message"}))
     IN \/ IF rows = {}
           THEN /\ tid = 0
                /\ AnswerAtOnce(none, none.resp)
           ELSE \E first \in rows :
                  Suspend([rq EXCEPT !.pc = "update",
                                     !.id = StopTarget(tid, first)])
        \/ /\ ttype \in {"playlist", "obs"}
           /\ tid = 0
           /\ AnswerAtOnce(StopCatch(rq), StopCatch(rq).resp)
  /\ UNCHANGED <<outside, lives, nextLive, transmissoes, nextTrans, playlists,
                 streamings, procs, activeTransmissions, now, exited>>

\* The UPDATE by codigo and the answer; or the UPDATE throws.
StopUpdate(rq) ==
  /\ ~exited
  /\ rq \in Waiting("stop", "update")
  /\ \/ /\ Clock
        /\ IF rq.ttype = "playlist"
           THEN /\ transmissoes' = UpdateWhere(transmissoes, rq.id, MarkFinalizada(transmissoes[rq.id]))
                /\ UNCHANGED lives
           ELSE /\ lives' = UpdateWhere(lives, rq.id, MarkStopped(lives[rq.id]))
                /\ UNCHANGED transmissoes
        /\ LET fin == SendResponse(rq, Resp(200, TRUE, {"message"}))
           IN AnswerAs(rq, fin, fin.resp)
     \/ /\ AnswerAs(rq, StopCatch(rq), StopCatch(rq).resp)
        /\ UNCHANGED <<lives, transmissoes, now>>
  /\ UNCHANGED <<outside, nextLive, nextTrans, playlists, streamings, procs,
                 activeTransmissions, exited>>

\* ----------------------------------------------------------- GET /status
\* The answers the first query can give: the latest transmission of the
\* user, whatever its status, is reported with is_live: true.
StatusPlaylist(userId) ==
  LET ids == {c \in DOMAIN transmissoes : transmissoes[c].codigo_stm = userId}
  IN {[Resp(200, TRUE, {"is_live", "stream_type", "transmission"})
         EXCEPT !.is_live = TRUE, !.stream_type = "playlist", !.sid = c,
                !.seen = transmissoes[c].status] :
        c \in Latest(transmissoes, ids)}

\* The answers of the second query: the latest live of the user, whatever
\* its status, with is_live: true; is_live: false only when there is none.
StatusObs(userId) ==
  LET ids == {c \in DOMAIN lives : lives[c].codigo_stm = userId}
  IN IF ids = {}
     THEN {Resp(200, TRUE, {"is_live", "stream_type", "transmission"})}
     ELSE {[Resp(200, TRUE, {"is_live", "stream_type", "obs_stream"})
              EXCEPT !.is_live = TRUE, !.stream_type = "obs", !.sid = c,
                     !.seen = lives[c].status] :
             c \in Latest(lives, ids)}

StatusBegin(o) ==
  /\ CanIssue
  /\ IF StatusPlaylist(o) # {}
     THEN \E resp \in StatusPlaylist(o) : AnswerAtOnce(NewReq("status", o), resp)
     ELSE Suspend([NewReq("status", o) EXCEPT !.pc = "obs"])
  /\ UNCHANGED <<outside, lives, nextLive, transmissoes, nextTrans, playlists,
                 streamings, procs, activeTransmissions, now, exited>>

StatusLives_Corrects(rq) ==
  /\ ~exited
  /\ rq \in Waiting("status", "obs")
  /\ \E resp \in StatusObs(rq.owner) : Answer(rq, resp)
  /\ lives' = [c \in DOMAIN lives |->
                 IF /\ lives[c].status = "1"
                    /\ ~\E p \in procs : p.login = lives[c].codigo_stm /\ p.id = c
                 THEN [lives[c] EXCEPT !.status = "0"] ELSE lives[c]]
  /\ UNCHANGED <<outside, nextLive, transmissoes, nextTrans, playlists,
                 streamings, procs, activeTransmissions, now, exited>>
StatusLives(rq) ==
  /\ ~exited
  /\ rq \in Waiting("status", "obs")
  /\ \E resp \in StatusObs(rq.owner) : Answer(rq, resp)
  /\ UNCHANGED <<outside, lives, nextLive, transmissoes, nextTrans, playlists,
                 streamings, procs, activeTransmissions, now, exited>>

\* ------------------------------------------- POST /cleanup-inactive
\* UPDATE transmissoes SET status = "finalizada", data_fim = NOW()
\* WHERE (owned) AND status = "ativa"
OrphanTransmissions_AllOwners(userId) ==
  {c \in DOMAIN transmissoes : transmissoes[c].status = "ativa"}
OrphanTransmissions(userId) ==
  {c \in DOMAIN transmissoes :
     OwnedByCliente(transmissoes[c].codigo_stm, userId)
     /\ transmissoes[c].status = "ativa"}

\* UPDATE lives SET status = "0", data_fim = NOW()
\* WHERE (owned) AND status = "1"
OrphanLives(userId) ==
  {c \in DOMAIN lives :
     OwnedByCliente(lives[c].codigo_stm, userId) /\ lives[c].status = "1"}

CleanupBegin(o) ==
  /\ Clock
  /\ CanIssue
  /\ transmissoes' =
       [c \in DOMAIN transmissoes |->
          IF c \in OrphanTransmissions(o)
          THEN MarkFinalizada(transmissoes[c]) ELSE transmissoes[c]]
  /\ Suspend([NewReq("cleanup", o) EXCEPT
                !.pc = "lives", !.count = Cardinality(OrphanTransmissions(o))])
  /\ UNCHANGED <<outside, lives, nextLive, nextTrans, playlists, streamings, procs,
                 activeTransmissions, exited>>

CleanupLives(rq) ==
  /\ Clock
  /\ ~exited
  /\ rq \in Waiting("cleanup", "lives")
  /\ lives' =
       [c \in DOMAIN lives |->
          IF c \in OrphanLives(rq.owner)
          THEN MarkStopped(lives[c]) ELSE lives[c]]
  /\ Answer(rq, [Resp(200, TRUE, {"success", "cleaned_count"}) EXCEPT
                   !.cleaned = rq.count + Cardinality(OrphanLives(rq.owner))])
  /\ UNCHANGED <<outside, nextLive, transmissoes, nextTrans, playlists, streamings,
                 procs, activeTransmissions, exited>>

\* ------------------------------------------------- SIGINT and SIGTERM
\* The loop over activeTransmissions: for each key whose user has a row in
\* streamings and whose kill command succeeds, the screen session is ended
\* and the live is marked stopped; then the map is cleared and the process
\* exits. failed are the keys whose SSH command throws.
Shutdown(sig) ==
  /\ ~exited
  /\ \E failed \in SUBSET activeTransmissions :
       LET swept == {k \in activeTransmissions \ failed :
                       \E s \in streamings : s.codigo_cliente = k.userId}
       IN /\ IF swept = {} THEN UNCHANGED now ELSE Clock
          /\ procs' = {p \in procs :
                         ~\E k \in swept : p.login = k.userId /\ p.id = k.liveId}
          /\ lives' = [c \in DOMAIN lives |->
                         IF \E k \in swept : k.liveId = c
                         THEN MarkStopped(lives[c]) ELSE lives[c]]
  /\ activeTransmissions' = {}
  /\ exited' = TRUE
  /\ inflight' = EmptyBag
  /\ UNCHANGED <<outside, nextLive, transmissoes, nextTrans, playlists, streamings,
                 issued, last>>

\* ------------------------------------------------------------ environment
\* An ffmpeg process ends by itself (source ended, destination refused).
ProcDies ==
  /\ ~exited
  /\ \E p \in procs : procs' = procs \ {p}
  /\ UNCHANGED <<outside, lives, nextLive, transmissoes, nextTrans, playlists,
                 streamings, activeTransmissions, inflight, issued, last,
                 now, exited>>

Requests == BagToSet(inflight)

Next ==
  \/ \E o \in Owners, m \in StartLiveMissing : StartLiveInvalid(o, m)
  \/ \E o \in Owners, t \in Tipos, imm \in BOOLEAN, m \in StartLiveMissing,
        stm \in Sources :
       StartLiveBegin(o, t, imm, m, stm)
  \/ \E rq \in Requests : StartLiveSSH(rq)
  \/ \E rq \in Requests : StartLiveSettle(rq)
  \/ \E rq \in Requests : StartLiveCheck(rq)
  \/ \E rq \in Requests : StartLiveUpdate(rq)
  \/ \E rq \in Requests : StartLiveCatch(rq)
  \/ \E o \in Owners, id \in 1..nextLive : StopLiveBegin(o, id)
  \/ \E rq \in Requests : StopLiveKill(rq)
  \/ \E rq \in Requests : StopLiveUpdate(rq)
  \/ \E o \in Owners, id \in 1..nextLive : RemoveLiveBegin(o, id)
  \/ \E rq \in Requests : RemoveLiveKill(rq)
  \/ \E rq \in Requests : RemoveLiveDelete(rq)
  \/ \E o \in Owners, m \in StartMissing : PlaylistStartInvalid(o, m)
  \/ \E o \in Owners, pl \in DOMAIN playlists, m \in StartMissing :
       PlaylistStartBegin(o, pl, m)
  \/ \E rq \in Requests : PlaylistStartInsert(rq)
  \/ \E o \in Owners, ttype \in StreamTypes,
        tid \in 0..(IF nextLive > nextTrans THEN nextLive ELSE nextTrans) - 1 :
       StopBegin(o, ttype, tid)
  \/ \E rq \in Requests : StopUpdate(rq)
  \/ \E o \in Owners : StatusBegin(o)
  \/ \E rq \in Requests : StatusLives(rq)
  \/ \E o \in Owners : CleanupBegin(o)
  \/ \E rq \in Requests : CleanupLives(rq)
  \/ \E sig \in Signals : Shutdown(sig)
  \/ ProcDies

Spec == Init /\ [][Next]_vars

\* ===================================================================
\* The start-live requests alone, over every tipo of the catalog, a tipo
\* outside it, and two sources
\* ===================================================================
BuilderTipos == DOMAIN platforms \cup {"other"}
BuilderSources == {"rtmp://source/a", "rtmp://source/b"}

NextBuilder ==
  \/ \E o \in Owners, t \in BuilderTipos, imm \in BOOLEAN,
        stm \in BuilderSources :
       issued < MaxBuilds /\ StartLiveBegin(o, t, imm, {}, stm)
  \/ \E rq \in Requests : StartLiveSSH(rq)
  \/ \E rq \in Requests : StartLiveSettle(rq)
  \/ \E rq \in Requests : StartLiveCheck(rq)
  \/ \E rq \in Requests : StartLiveUpdate(rq)
  \/ \E rq \in Requests : StartLiveCatch(rq)

SpecBuilder == Init /\ [][NextBuilder]_vars

\* ===================================================================
\* Two users: the session routes with requests of both
\* ===================================================================
TwoOwners == {1, 2}

NextOwners ==
  \/ \E o \in TwoOwners, t \in Tipos, imm \in BOOLEAN, stm \in Sources :
       StartLiveBegin(o, t, imm, {}, stm)
  \/ \E rq \in Requests : StartLiveSSH(rq)
  \/ \E rq \in Requests : StartLiveSettle(rq)
  \/ \E rq \in Requests : StartLiveCheck(rq)
  \/ \E rq \in Requests : StartLiveUpdate(rq)
  \/ \E rq \in Requests : StartLiveCatch(rq)
  \/ \E o \in TwoOwners, id \in 1..nextLive : StopLiveBegin(o, id)
  \/ \E rq \in Requests : StopLiveKill(rq)
  \/ \E rq \in Requests : StopLiveUpdate(rq)
  \/ \E o \in TwoOwners, id \in 1..nextLive : RemoveLiveBegin(o, id)
  \/ \E rq \in Requests : RemoveLiveKill(rq)
  \/ \E rq \in Requests : RemoveLiveDelete(rq)
  \/ \E o \in TwoOwners, pl \in DOMAIN playlists : PlaylistStartBegin(o, pl, {})
  \/ \E rq \in Requests : PlaylistStartInsert(rq)
  \/ \E o \in TwoOwners, ttype \in StreamTypes,
        tid \in 0..(IF nextLive > nextTrans THEN nextLive ELSE nextTrans) - 1 :
       StopBegin(o, ttype, tid)
  \/ \E rq \in Requests : StopUpdate(rq)
  \/ \E o \in TwoOwners : CleanupBegin(o)
  \/ \E rq \in Requests : CleanupLives(rq)

SpecOwners == Init /\ [][NextOwners]_vars

\* ===================================================================
\* WowzaStreamingService.startSMILStream (no route calls it: it is
\* specified on its own, one call with every outcome of its requests)
\* ===================================================================
\* The outcomes of one fetch: response.ok, a response that is not ok, and
\* a rejected promise (network error, or the timeout option expiring).
FetchOutcomes == {"ok", "error", "throw"}

\* The keys of the object startSMILStream returns on success and on failure;
\* neither names a platform: failed, what the result says of failed targets,
\* is empty.
SMILSuccess ==
  [success |-> TRUE, keys |-> {"success", "streamId", "data"}, failed |-> {}]
SMILFailure ==
  [success |-> FALSE, keys |-> {"success", "error"}, failed |-> {}]

\* if (!streamResult.success) throw new Error(...)
PublisherFailed_Ignored(outcome) == FALSE
PublisherFailed(outcome) == outcome # "ok"

\* for (const platform of platforms) { try { await ... } catch { warn } }:
\* the index of the platform after the i-th, whatever its outcome.
NextTarget_StopsAtFailure(i, n, outcome) ==
  IF outcome = "ok" THEN i + 1 ELSE n + 1
NextTarget(i, n, outcome) == i + 1

\* What follows the result of startStreamPublisher: the throw, caught by the
\* outer catch, which returns the failure; or the loop over the platforms.
AfterPublisher(w, outcome) ==
  IF PublisherFailed(outcome)
  THEN [w EXCEPT !.pc = "done", !.publisher = outcome, !.result = SMILFailure]
  ELSE [w EXCEPT !.pc = "push", !.publisher = outcome, !.i = 1]

\* startSMILStream(config) is called: userLogin, and the platforms of the
\* config numbered 1..n.
SMILBegin(login, n) ==
  /\ wowza.pc = "idle"
  /\ wowza' = [wowza EXCEPT !.pc = "check_app", !.login = login,
                            !.platforms = [k \in 1..n |-> k]]
  /\ UNCHANGED <<core, stats, control, limits>>

\* checkApplicationExists: response.ok, false on any error.
SMILCheckApp ==
  /\ wowza.pc = "check_app"
  /\ \E outcome \in FetchOutcomes :
       wowza' = [wowza EXCEPT
                   !.checked = outcome,
                   !.pc = IF outcome = "ok" /\ wowza.login \in wowza.apps
                          THEN "publisher" ELSE "create_app"]
  /\ UNCHANGED <<core, stats, control, limits>>

\* createUserApplication: its result is not looked at.
SMILCreateApp ==
  /\ wowza.pc = "create_app"
  /\ \E outcome \in FetchOutcomes :
       wowza' = [wowza EXCEPT
                   !.pc = "publisher",
                   !.created = outcome,
                   !.apps = IF outcome = "ok" THEN @ \cup {wowza.login} ELSE @]
  /\ UNCHANGED <<core, stats, control, limits>>

\* startStreamPublisher: the PUT .../actions/connect; on response.ok it
\* goes on to wait, else it returns { success: false }.
SMILPublisher_NoWait ==
  /\ wowza.pc = "publisher"
  /\ \E outcome \in FetchOutcomes :
       IF outcome = "ok"
       THEN wowza' = AfterPublisher(
                       [wowza EXCEPT !.publishers = @ \cup {wowza.login}], "ok")
       ELSE wowza' = AfterPublisher(wowza, outcome)
  /\ UNCHANGED <<core, stats, control, limits>>
SMILPublisher ==
  /\ wowza.pc = "publisher"
  /\ \E outcome \in FetchOutcomes :
       IF outcome = "ok"
       THEN wowza' = [wowza EXCEPT !.pc = "settle",
                                   !.publishers = @ \cup {wowza.login}]
       ELSE wowza' = AfterPublisher(wowza, outcome)
  /\ UNCHANGED <<core, stats, control, limits>>

\* await new Promise(resolve => setTimeout(resolve, 3000)); return success
SMILSettle ==
  /\ wowza.pc = "settle"
  /\ wowza' = AfterPublisher(wowza, "ok")
  /\ UNCHANGED <<core, stats, control, limits>>

\* configurePushPublish for the platform at index i: it returns
\* { success } and never throws; the loop goes on to the next platform.
SMILPush ==
  /\ wowza.pc = "push"
  /\ wowza.i <= Len(wowza.platforms)
  /\ \E outcome \in FetchOutcomes :
       wowza' = [wowza EXCEPT
                   !.pushes = IF outcome = "ok"
                              THEN @ \cup {<<wowza.login, wowza.platforms[wowza.i]>>}
                              ELSE @,
                   !.attempts = Append(@, <<wowza.platforms[wowza.i], outcome>>),
                   !.i = NextTarget(wowza.i, Len(wowza.platforms), outcome)]
  /\ UNCHANGED <<core, stats, control, limits>>

\* The loop is over: return { success: true, streamId, data }.
SMILReturn ==
  /\ wowza.pc = "push"
  /\ wowza.i > Len(wowza.platforms)
  /\ wowza' = [wowza EXCEPT !.pc = "done", !.result = SMILSuccess]
  /\ UNCHANGED <<core, stats, control, limits>>

NextWowza ==
  \/ \E login \in Owners, n \in 0..MaxPlatforms : SMILBegin(login, n)
  \/ SMILCheckApp
  \/ SMILCreateApp
  \/ SMILPublisher
  \/ SMILSettle
  \/ SMILPush
  \/ SMILReturn

SpecWowza == Init /\ [][NextWowza]_vars

\* ===================================================================
\* WowzaStreamingService: statistics
\* ===================================================================
MaxStreams == 2

\* Column usuario of the account of a user id.
Usuario == (1 :> <<"joao">> @@ 2 :> <<"maria">>)

\* Names are sequences of pieces; `${userLogin}_live` appends a piece.
LiveName(login) == login \o <<"_live">>

\* The names under which encoders publish.
StreamNames ==
  {<<"joao">>, <<"joao", "_live">>, <<"joao", "2">>, <<"maria">>}

\* An entry of incomingStreams.
Stream(name) ==
  [name |-> name, connectionsCurrent |-> 1, messagesInBytesRate |-> 2000,
   timeRunning |-> 61000]

\* userRows[0].usuario, or `user_${userId}` when there is no row.
UserLogin(userId) ==
  IF userId \in DOMAIN Usuario THEN Usuario[userId] ELSE <<"user_", userId>>

\* String.prototype.includes
Includes(name, part) ==
  \E k \in 0..(Len(name) - Len(part)) :
     SubSeq(name, k + 1, k + Len(part)) = part

\* The predicate given to find and to filter.
MatchesUser(stream, login) ==
  \/ stream.name = LiveName(login)
  \/ stream.name = login
  \/ Includes(stream.name, login)

\* Array.prototype.find: the indexes that match; the first one is taken.
MatchingIndexes(list, login) ==
  {k \in DOMAIN list : MatchesUser(list[k], login)}
First(S) == CHOOSE k \in S : \A j \in S : k <= j

\* Array.prototype.filter
FilterUser(list, login) ==
  SelectSeq(list, LAMBDA st : MatchesUser(st, login))

\* formatUptime: hours, minutes, seconds of a number of milliseconds.
FormatUptime(milliseconds) ==
  LET seconds == milliseconds \div 1000
  IN <<seconds \div 3600, (seconds % 3600) \div 60, seconds % 60>>

\* The zeroed value of getStreamStats, and of getOBSStreamStats.
ZeroStats == StatsNone
ZeroOBSStats(login) == [StatsNone EXCEPT !.streamName = LiveName(login)]

\* getStreamStats on response.ok, from the data of the answer.
StreamStats(connections) ==
  [StatsNone EXCEPT !.viewers = connections,
                    !.bitrate = 2000,
                    !.uptime = FormatUptime(61000),
                    !.isActive = connections > 0]

\* getOBSStreamStats on response.ok.
OBSStats(list, login) ==
  LET idx == MatchingIndexes(list, login)
  IN IF idx # {}
     THEN LET userStream == list[First(idx)]
          IN [StatsNone EXCEPT
                !.isLive = TRUE, !.isActive = TRUE,
                !.streamName = userStream.name,
                !.viewers = userStream.connectionsCurrent,
                !.bitrate = userStream.messagesInBytesRate \div 1000,
                !.uptime = FormatUptime(userStream.timeRunning)]
     ELSE ZeroOBSStats(login)

\* checkUserIncomingStreams on response.ok.
UserIncoming(list, login) ==
  [StatsNone EXCEPT !.success = TRUE,
                    !.isActive = Len(FilterUser(list, login)) > 0,
                    !.activeStreams = FilterUser(list, login)]

\* What the catch block of each operation does with an error. The one of
\* getOBSStreamStats evaluates `${userLogin}_live` outside the block that
\* declares userLogin: the ReferenceError leaves the function.
StatsCatch(st) ==
  IF st.fn = "obs"
  THEN [st EXCEPT !.pc = "done", !.rejected = TRUE]
  ELSE [st EXCEPT !.pc = "done", !.ret = ZeroStats]

\* An encoder connects: its stream is added to the list of the server.
StreamConnects(name) ==
  /\ Len(stats.incoming) < MaxStreams
  /\ \A k \in DOMAIN stats.incoming : stats.incoming[k].name # name
  /\ stats' = [stats EXCEPT !.incoming = Append(@, Stream(name))]
  /\ UNCHANGED <<core, wowza, control, limits>>

\* A statistics operation is called. getStreamStats takes its login from
\* the stream id and goes to its fetch; the two others look the login up.
StatsCall(fn, userId) ==
  /\ stats.pc \in {"idle", "done"}
  /\ stats' = [stats EXCEPT
                 !.pc = IF fn = "stream" THEN "fetch" ELSE "lookup",
                 !.fn = fn, !.userId = userId,
                 !.login = IF fn = "stream" THEN UserLogin(userId) ELSE <<>>,
                 !.seen = <<>>, !.outcome = "none",
                 !.ret = StatsNone, !.rejected = FALSE]
  /\ UNCHANGED <<core, wowza, control, limits>>

\* const [userRows] = await db.execute(...): the rows, or an error.
StatsLookup ==
  /\ stats.pc = "lookup"
  /\ \E outcome \in {"ok", "throw"} :
       stats' = IF outcome = "ok"
                THEN [stats EXCEPT !.pc = "fetch",
                                   !.login = UserLogin(stats.userId)]
                ELSE StatsCatch([stats EXCEPT !.outcome = "db"])
  /\ UNCHANGED <<core, wowza, control, limits>>

\* await fetch(...): response.ok, another status, or a timeout or
\* transport error.
StatsFetch ==
  /\ stats.pc = "fetch"
  /\ \E outcome \in FetchOutcomes, connections \in {0, 1} :
       LET st == [stats EXCEPT !.outcome = outcome, !.seen = stats.incoming]
       IN stats' =
            CASE outcome = "throw" -> StatsCatch(st)
              [] outcome = "error" ->
                   [st EXCEPT !.pc = "done",
                              !.ret = IF st.fn = "obs"
                                      THEN ZeroOBSStats(st.login)
                                      ELSE ZeroStats]
              [] OTHER ->
                   [st EXCEPT !.pc = "done",
                              !.ret = CASE st.fn = "stream" -> StreamStats(connections)
                                        [] st.fn = "obs" -> OBSStats(st.seen, st.login)
                                        [] OTHER -> UserIncoming(st.seen, st.login)]
  /\ UNCHANGED <<core, wowza, control, limits>>

NextStats ==
  \/ \E name \in StreamNames : StreamConnects(name)
  \/ \E fn \in {"stream", "obs", "check"}, userId \in Owners : StatsCall(fn, userId)
  \/ StatsLookup
  \/ StatsFetch

SpecStats == Init /\ [][NextStats]_vars

\* ===================================================================
\* Streaming-control routes
\* ===================================================================
MaxControl == 2

ControlOps == {"bloquear", "desbloquear", "remover"}
ControlLogins == {"none", "joao"}
UserFields == {"none", "admin", "revenda", "streaming"}

\* const userType = req.user?.type || req.user?.tipo
UserType(user) == IF user.type # "none" THEN user.type ELSE user.tipo

\* !(!userType || (userType !== 'admin' && userType !== 'revenda'))
Authorized_AnyType(userType) == userType # "none"
Authorized(userType) ==
  userType # "none" /\ ~(userType # "admin" /\ userType # "revenda")

\* The handler of /bloquear, /desbloquear and /remover up to its await:
\* 400 without a login, 403 for a user type that is not allowed, else the
\* call of the service with (login, userType).
ControlRequest(op, login, user) ==
  /\ control.pc \in {"idle", "done"}
  /\ control.n < MaxControl
  /\ LET c == [control EXCEPT !.op = op, !.login = login, !.user = user,
                              !.n = @ + 1]
     IN control' =
          CASE login = "none" -> [c EXCEPT !.pc = "done", !.status = 400]
            [] ~Authorized(UserType(user)) ->
                 [c EXCEPT !.pc = "done", !.status = 403]
            [] OTHER ->
                 [c EXCEPT !.pc = "service", !.status = 0,
                           !.calls = Append(@, <<op, login, UserType(user)>>)]
  /\ UNCHANGED <<core, wowza, stats, limits>>

\* The service answers: result.success, or not, or it throws.
ControlAnswer ==
  /\ control.pc = "service"
  /\ \E outcome \in {"success", "failure", "throw"} :
       control' = [control EXCEPT
                     !.pc = "done",
                     !.status = IF outcome = "success" THEN 200 ELSE 500]
  /\ UNCHANGED <<core, wowza, stats, limits>>

NextControl ==
  \/ \E op \in ControlOps, login \in ControlLogins,
        user \in [type : UserFields, tipo : UserFields] :
       ControlRequest(op, login, user)
  \/ ControlAnswer

SpecControl == Init /\ [][NextControl]_vars

\* ===================================================================
\* playlists.js: PUT /:id and DELETE /:id, with POST /start and POST /stop
\* ===================================================================
\* Largest number of videos in the body of one PUT.
MaxVideos == 1

\* The table playlists_agendamentos: the playlists used in a schedule.
playlists_agendamentos == {3}

\* WHERE id = ? AND (codigo_stm = ? OR codigo_stm IN (SELECT codigo_cliente
\* FROM streamings WHERE codigo_cliente = ?))
PlaylistRows(pl, userId) ==
  {p \in DOMAIN playlists :
     p = pl /\ OwnedByCliente(playlists[p].codigo_stm, userId)}

\* req.body.videos: the lists of distinct video ids of length <= MaxVideos.
VideoLists ==
  {l \in UNION {[1..n -> DOMAIN videos] : n \in 0..MaxVideos} :
     \A j, k \in DOMAIN l : j # k => l[j] # l[k]}

\* UPDATE videos SET playlist_id = NULL WHERE playlist_id = ?
ClearPlaylist(tab, pl) ==
  [v \in DOMAIN tab |->
     IF tab[v].playlist_id = pl THEN [tab[v] EXCEPT !.playlist_id = 0]
     ELSE tab[v]]

\* UPDATE videos SET playlist_id = ?, ordem_playlist = ?
\* WHERE id = ? AND codigo_cliente = ?
AddVideo(tab, pl, id, userId) ==
  [v \in DOMAIN tab |->
     IF v = id /\ tab[v].codigo_cliente = userId
     THEN [tab[v] EXCEPT !.playlist_id = pl] ELSE tab[v]]

\* SELECT COUNT(*) as total_videos FROM videos WHERE playlist_id = ?
CountVideos(tab, pl) == Cardinality({v \in DOMAIN tab : tab[v].playlist_id = pl})

\* UPDATE playlists SET total_videos = ?, duracao_total = ? WHERE id = ?
SetTotal(tab, pl, total) ==
  [p \in DOMAIN tab |->
     IF p = pl THEN [tab[p] EXCEPT !.total_videos = total] ELSE tab[p]]

\* PUT /:id with a video list (hasVideos) or without one: the lookup and
\* the 404; without a list nothing of the store is written. The list is
\* recorded with the request once the handler uses it.
PlaylistPutBegin(o, pl, hasVideos, vids) ==
  /\ CanIssue
  /\ LET rq == [NewReq("playlist_put", o) EXCEPT !.tid = pl]
     IN IF PlaylistRows(pl, o) = {}
        THEN AnswerAtOnce(rq, Resp(404, FALSE, {"error"}))
        ELSE IF ~hasVideos
        THEN AnswerAtOnce([rq EXCEPT !.missing = {"videos"}],
                          Resp(200, TRUE, {"success", "message"}))
        ELSE Suspend([rq EXCEPT !.pc = "clear", !.vids = vids])
  /\ UNCHANGED <<services, videos, lives, nextLive, transmissoes, nextTrans,
                 playlists, streamings, procs, activeTransmissions, now, exited>>

PlaylistPutClear(rq) ==
  /\ ~exited
  /\ rq \in Waiting("playlist_put", "clear")
  /\ videos' = ClearPlaylist(videos, rq.tid)
  /\ Goto(rq, [rq EXCEPT !.pc = "add", !.i = 1])
  /\ UNCHANGED <<services, lives, nextLive, transmissoes, nextTrans,
                 playlists, streamings, procs, activeTransmissions, now, exited>>

\* for (let i = 0; i < videos.length; i++) await db.execute(UPDATE videos)
PlaylistPutAdd(rq) ==
  /\ ~exited
  /\ rq \in Waiting("playlist_put", "add")
  /\ rq.i <= Len(rq.vids)
  /\ videos' = AddVideo(videos, rq.tid, rq.vids[rq.i], rq.owner)
  /\ Goto(rq, [rq EXCEPT !.i = @ + 1])
  /\ UNCHANGED <<services, lives, nextLive, transmissoes, nextTrans,
                 playlists, streamings, procs, activeTransmissions, now, exited>>

\* The loop is over: the SELECT COUNT(*).
PlaylistPutStats(rq) ==
  /\ ~exited
  /\ rq \in Waiting("playlist_put", "add")
  /\ rq.i > Len(rq.vids)
  /\ Goto(rq, [rq EXCEPT !.pc = "total", !.count = CountVideos(videos, rq.tid)])
  /\ UNCHANGED <<services, videos, lives, nextLive, transmissoes, nextTrans,
                 playlists, streamings, procs, activeTransmissions, now, exited>>

\* The UPDATE of the playlist row and the answer (the SMIL refresh in
\* between only logs its failure).
PlaylistPutTotal(rq) ==
  /\ ~exited
  /\ rq \in Waiting("playlist_put", "total")
  /\ playlists' = SetTotal(playlists, rq.tid, rq.count)
  /\ Answer(rq, Resp(200, TRUE, {"success", "message"}))
  /\ UNCHANGED <<services, videos, lives, nextLive, transmissoes, nextTrans,
                 streamings, procs, activeTransmissions, now, exited>>

\* DELETE /:id: the lookup and the 404.
PlaylistDeleteBegin(o, pl) ==
  /\ CanIssue
  /\ LET rq == [NewReq("playlist_delete", o) EXCEPT !.tid = pl]
     IN IF PlaylistRows(pl, o) = {}
        THEN AnswerAtOnce(rq, Resp(404, FALSE, {"error"}))
        ELSE Suspend([rq EXCEPT !.pc = "active"])
  /\ UNCHANGED <<services, videos, lives, nextLive, transmissoes, nextTrans,
                 playlists, streamings, procs, activeTransmissions, now, exited>>

\* SELECT codigo FROM transmissoes WHERE codigo_playlist = ? AND
\* status = "ativa"
UsingPlaylist(pl) ==
  {c \in DOMAIN transmissoes :
     transmissoes[c].codigo_playlist = pl /\ transmissoes[c].status = "ativa"}

PlaylistDeleteActive(rq) ==
  /\ ~exited
  /\ rq \in Waiting("playlist_delete", "active")
  /\ IF UsingPlaylist(rq.tid) # {}
     THEN AnswerAs(rq, [rq EXCEPT !.err = "conflict"],
                   Resp(400, FALSE, {"error", "details"}))
     ELSE Goto(rq, [rq EXCEPT !.pc = "agendamentos"])
  /\ UNCHANGED <<services, videos, lives, nextLive, transmissoes, nextTrans,
                 playlists, streamings, procs, activeTransmissions, now, exited>>

\* SELECT COUNT(*) as count FROM playlists_agendamentos WHERE ...
PlaylistDeleteAgendamentos(rq) ==
  /\ ~exited
  /\ rq \in Waiting("playlist_delete", "agendamentos")
  /\ IF rq.tid \in playlists_agendamentos
     THEN AnswerAs(rq, [rq EXCEPT !.err = "agendamentos"],
                   Resp(400, FALSE, {"error", "details"}))
     ELSE Goto(rq, [rq EXCEPT !.pc = "videos"])
  /\ UNCHANGED <<services, videos, lives, nextLive, transmissoes, nextTrans,
                 playlists, streamings, procs, activeTransmissions, now, exited>>

\* UPDATE videos SET playlist_id = NULL, ordem_playlist = NULL WHERE ...
PlaylistDeleteVideos(rq) ==
  /\ ~exited
  /\ rq \in Waiting("playlist_delete", "videos")
  /\ videos' = ClearPlaylist(videos, rq.tid)
  /\ Goto(rq, [rq EXCEPT !.pc = "delete"])
  /\ UNCHANGED <<services, lives, nextLive, transmissoes, nextTrans,
                 playlists, streamings, procs, activeTransmissions, now, exited>>

\* DELETE FROM playlists WHERE id = ? and the answer.
PlaylistDeleteRow(rq) ==
  /\ ~exited
  /\ rq \in Waiting("playlist_delete", "delete")
  /\ playlists' = DeleteWhere(playlists, rq.tid)
  /\ Answer(rq, Resp(200, TRUE, {"success", "message"}))
  /\ UNCHANGED <<services, videos, lives, nextLive, transmissoes, nextTrans,
                 streamings, procs, activeTransmissions, now, exited>>

NextPlaylists ==
  \/ \E o \in Owners, pl \in 1..3, hasVideos \in BOOLEAN, vids \in VideoLists :
       PlaylistPutBegin(o, pl, hasVideos, vids)
  \/ \E rq \in Requests : PlaylistPutClear(rq)
  \/ \E rq \in Requests : PlaylistPutAdd(rq)
  \/ \E rq \in Requests : PlaylistPutStats(rq)
  \/ \E rq \in Requests : PlaylistPutTotal(rq)
  \/ \E o \in Owners, pl \in 1..3 : PlaylistDeleteBegin(o, pl)
  \/ \E rq \in Requests : PlaylistDeleteActive(rq)
  \/ \E rq \in Requests : PlaylistDeleteAgendamentos(rq)
  \/ \E rq \in Requests : PlaylistDeleteVideos(rq)
  \/ \E rq \in Requests : PlaylistDeleteRow(rq)
  \/ \E o \in Owners, pl \in DOMAIN playlists : PlaylistStartBegin(o, pl, {})
  \/ \E rq \in Requests : PlaylistStartInsert(rq)
  \/ \E o \in Owners, tid \in 0..(nextTrans - 1) : StopBegin(o, "playlist", tid)
  \/ \E rq \in Requests : StopUpdate(rq)

SpecPlaylists == Init /\ [][NextPlaylists]_vars

\* ===================================================================
\* WowzaStreamingService: checkUserLimits
\* ===================================================================
\* Bitrates are multiples of 500 kbps, up to MaxBitrateSteps steps; 0
\* stands for a value that is absent (or 0: both are falsy).
MaxBitrateSteps == 7
Bitrates == {500 * k : k \in 0..MaxBitrateSteps}

\* userConfig.bitrate || 2500
DefaultBitrate == 2500
MaxBitrate(bitrate) == IF bitrate # 0 THEN bitrate ELSE DefaultBitrate

\* Math.min
Min2(a, b) == IF a <= b THEN a ELSE b

\* requestedBitrate ? Math.min(requestedBitrate, maxBitrate) : maxBitrate
AllowedBitrate_Unclamped(requested, max) ==
  IF requested # 0 THEN requested ELSE max
AllowedBitrate(requested, max) ==
  IF requested # 0 THEN Min2(requested, max) ELSE max

\* The number of entries of warnings.
Warnings(requested, max) ==
  IF requested # 0 /\ requested > max THEN 1 ELSE 0

\* checkUserLimits(userConfig, requestedBitrate) is called.
LimitsCall(bitrate, requested) ==
  /\ limits.pc \in {"idle", "done"}
  /\ limits' = [LimitsIdle EXCEPT !.pc = "called", !.bitrate = bitrate,
                                  !.requested = requested]
  /\ UNCHANGED <<core, wowza, stats, control>>

\* It returns { success: true, limits, warnings }.
LimitsReturn ==
  /\ limits.pc = "called"
  /\ limits' = [limits EXCEPT
                  !.pc = "done",
                  !.max = MaxBitrate(limits.bitrate),
                  !.allowed = AllowedBitrate(limits.requested,
                                             MaxBitrate(limits.bitrate)),
                  !.warnings = Warnings(limits.requested,
                                        MaxBitrate(limits.bitrate))]
  /\ UNCHANGED <<core, wowza, stats, control>>

NextLimits ==
  \/ \E bitrate \in Bitrates, requested \in Bitrates :
       LimitsCall(bitrate, requested)
  \/ LimitsReturn

SpecLimits == Init /\ [][NextLimits]_vars
\* ===================================================================
\* Properties
\* ===================================================================
TerminalLive == {"0", "3"}
TerminalTransmission == {"finalizada"}

\* The request rq took a step.
Stepped(rq) ==
  /\ ~exited'
  /\ CopiesIn(rq, inflight') < CopiesIn(rq, inflight)

\* The request rq sent its response in this step: last' is its record.
Answered(rq) ==
  /\ Stepped(rq)
  /\ BagCardinality(inflight') < BagCardinality(inflight)

\* The sessions of an owner that the store declares Starting or Live.
ActiveSessions(o) ==
  {<<"transmissoes", c>> : c \in {d \in DOMAIN transmissoes :
      transmissoes[d].codigo_stm = o /\ transmissoes[d].status = "ativa"}}
  \cup
  {<<"lives", c>> : c \in {d \in DOMAIN lives :
      lives[d].codigo_stm = o /\ lives[d].status = "1"}}

\* C1: at every instant each owner has at most one session declared
\* Starting or Live (transmissoes 'ativa' or lives '1').
C1_AtMostOneActive ==
  \A o \in Owners : Cardinality(ActiveSessions(o)) <= 1

\* C2: a status answer with is_live: true is never given for a row whose
\* status column, as the handler read it, is Stopped or Failed.
C2_StatusNeverLiveWhenTerminal ==
  (last.kind = "status" /\ last.resp.is_live)
    => last.resp.seen \notin (TerminalLive \cup TerminalTransmission)

\* The answers GET /status gives in a state where no other request runs
\* between its two queries.
StatusAnswers(o) ==
  IF StatusPlaylist(o) # {} THEN StatusPlaylist(o) ELSE StatusObs(o)

\* C3: once a stop request has answered success for a session, a status
\* query of the owner does not report that session as live.
C3_StopThenStatusStopped ==
  [][\A rq \in Requests :
       (/\ Answered(rq)
        /\ rq.kind \in {"stop", "stop_live"}
        /\ last'.resp.success)
       => \A resp \in StatusAnswers(rq.owner)' :
            ~(/\ resp.is_live
              /\ resp.sid = rq.id
              /\ resp.stream_type =
                   (IF rq.kind = "stop" /\ rq.ttype = "playlist"
                    THEN "playlist" ELSE "obs"))]_vars

\* The stop-live request rq answers after its kill command threw.
StopLiveFails(rq) ==
  /\ Answered(rq)
  /\ rq.kind = "stop_live" /\ rq.pc = "kill"
  /\ last'.err = "ssh"

C5_TerminalNeverMutated ==
  [][/\ \A c \in DOMAIN lives :
          lives[c].status \in TerminalLive
          => (c \notin DOMAIN lives' \/ lives'[c] = lives[c])
     /\ \A c \in DOMAIN transmissoes :
          transmissoes[c].status \in TerminalTransmission
          => (c \notin DOMAIN transmissoes' \/ transmissoes'[c] = transmissoes[c])
    ]_vars

\* The changes of lives.status the lifecycle allows, Starting and Stopping
\* not being stored: Scheduled to Live or to Failed (start), and Scheduled
\* or Live to Stopped (stop).
LifecycleLives == {<<"2", "1">>, <<"2", "3">>, <<"2", "0">>, <<"1", "0">>}

\* C6: every change of a declared state follows the lifecycle: a live is
\* created Scheduled and changes only along LifecycleLives; a transmission
\* changes only from 'ativa' to 'finalizada'.
C6_Lifecycle ==
  [][/\ \A c \in DOMAIN lives' :
          IF c \in DOMAIN lives
          THEN \/ lives'[c].status = lives[c].status
               \/ <<lives[c].status, lives'[c].status>> \in LifecycleLives
          ELSE lives'[c].status = "2"
     /\ \A c \in DOMAIN transmissoes' \cap DOMAIN transmissoes :
          \/ transmissoes'[c].status = transmissoes[c].status
          \/ /\ transmissoes[c].status = "ativa"
             /\ transmissoes'[c].status = "finalizada"
    ]_vars

\* C7: a live becomes Live, with data_inicio set to the time of the update,
\* only in a step of its own start-live request that comes after the start
\* command, then the settling wait, then a process check that counted more
\* than zero.
C7_LiveOnlyAfterVerification ==
  [][\A c \in DOMAIN lives' :
       (lives'[c].status = "1" /\ (c \notin DOMAIN lives \/ lives[c].status # "1"))
       => \E rq \in Requests :
            /\ Answered(rq)
            /\ rq.kind = "start_live" /\ rq.id = c
            /\ rq.log = <<"start", "settle", "check">>
            /\ rq.count > 0
            /\ lives'[c].data_inicio = At(now')]_vars

C7_Witness ==
  /\ last.kind = "start_live" /\ last.resp.success
  /\ last.id \in DOMAIN lives
  /\ lives[last.id].status = "1"
  /\ last.log = <<"start", "settle", "check">>

\* The steps of a start-live request once its check has counted zero
\* processes: the update of the failure branch, then the catch block.
VerifyZeroStep(rq) ==
  /\ Stepped(rq)
  /\ rq.kind = "start_live"
  /\ \/ rq.pc = "update" /\ rq.count = 0
     \/ rq.pc = "catch" /\ rq.err = "reference"

\* C8 as claimed: when the check counts zero processes the session ends
\* Failed with data_fim unset.
C8_VerifyZeroEndUnset ==
  [][\A rq \in Requests :
       (VerifyZeroStep(rq) /\ Answered(rq) /\ rq.id \in DOMAIN lives')
       => /\ lives'[rq.id].status = "3"
          /\ lives'[rq.id].data_fim = Null]_vars

\* C8 as amended: when the check counts zero processes, each later step of
\* the request sets the record (if it still exists) to Failed, never to
\* Live, and leaves its data_fim as it was, which is never NULL; the request
\* answers failure.
C8_VerifyZeroEndsFailed ==
  [][\A rq \in Requests :
       VerifyZeroStep(rq)
       => /\ rq.id \in DOMAIN lives
             => /\ lives'[rq.id].status = "3"
                /\ lives'[rq.id].data_fim = lives[rq.id].data_fim
                /\ lives'[rq.id].data_fim # Null
          /\ Answered(rq) => (last'.resp.code = 500 /\ ~last'.resp.success)
    ]_vars

C8_Witness ==
  /\ last.kind = "start_live" /\ last.err = "reference" /\ last.count = 0
  /\ last.log = <<"start", "settle", "check">>
  /\ last.id \in DOMAIN lives
  /\ lives[last.id].status = "3"
  /\ lives[last.id].data_fim = At(PlannedEnd)

\* C9: the failure answer after a check that counted zero processes carries
\* the diagnostic payload (debug_info: the command executed, the check
\* output).
C9_DiagnosticPayload ==
  (last.kind = "start_live" /\ last.pc = "done" /\ last.err = "reference")
    => "debug_info" \in last.resp.keys

\* C10: when the start command or the check command throws, the request
\* sets the record (if it still exists) to Failed and answers failure, and
\* a request in which a command threw never leaves its record Live.
C10_TransportFailureFails ==
  [][/\ \A rq \in Requests :
          (Stepped(rq) /\ rq.kind = "start_live" /\ rq.pc = "catch"
           /\ rq.err = "ssh")
          => /\ Answered(rq)
             /\ rq.id \in DOMAIN lives => lives'[rq.id].status = "3"
             /\ last'.resp.code = 500 /\ ~last'.resp.success
     /\ \A rq \in BagToSet(inflight') :
          (rq.kind = "start_live" /\ rq.err = "ssh" /\ rq.id \in DOMAIN lives')
          => lives'[rq.id].status # "1"
    ]_vars

C10_Witness ==
  /\ last.kind = "start_live" /\ last.err = "ssh" /\ last.resp.code = 500
  /\ last.log = <<"start", "settle">>
  /\ last.id \in DOMAIN lives
  /\ lives[last.id].status = "3"

\* C11: a transmission is stored as 'ativa' only by a step of its own POST
\* /start request that comes after the publisher start, the settling wait
\* and the verification of the stream.
C11_ActiveOnlyAfterPublisher ==
  [][\A c \in DOMAIN transmissoes' :
       (/\ transmissoes'[c].status = "ativa"
        /\ c \notin DOMAIN transmissoes)
       => \E rq \in Requests :
            /\ Answered(rq)
            /\ rq.kind = "start"
            /\ rq.log = <<"publisher", "settle", "verify">>]_vars

\* The lives of owner o declared Live that have no screen session.
OrphanedLive(ls, ps, o) ==
  {c \in DOMAIN ls :
     /\ ls[c].codigo_stm = o /\ ls[c].status = "1"
     /\ ~\E p \in ps : p.login = o /\ p.id = c}

\* The process exits in this step: the signal handler has run.
Exits == exited' /\ ~exited

\* C12: when a sweep completes (the cleanup of an owner answers, or the
\* signal handler has run for everyone), no live of a swept owner is
\* declared Live without a backing process.
C12_SweepLeavesNoOrphan ==
  [][\A o \in Owners :
       (\/ \E rq \in Requests :
             Answered(rq) /\ rq.kind = "cleanup" /\ rq.owner = o
        \/ Exits)
       => OrphanedLive(lives', procs', o) = {}]_vars

\* C13: when a signal arrives while a live is Live, the handler ends its
\* screen session and the live ends Stopped with data_fim set to the time
\* of the sweep, and no live of that owner is left Scheduled or Live.
C13_ShutdownStopsLive ==
  [][Exits =>
       \A c \in DOMAIN lives :
         lives[c].status = "1"
         => /\ lives'[c].status = "0"
            /\ lives'[c].data_fim = At(now')
            /\ ~\E p \in procs' : p.login = lives[c].codigo_stm /\ p.id = c
            /\ \A d \in DOMAIN lives' :
                 lives'[d].codigo_stm = lives[c].codigo_stm
                 => lives'[d].status \in TerminalLive]_vars

\* C14: the process exits only after the sweep has gone over every active
\* session: each session declared active at the signal is one of those the
\* handler's loop iterates over.
C14_ExitAfterSweepOfAll ==
  [][Exits =>
       /\ \A c \in DOMAIN lives :
            lives[c].status = "1"
            => \E k \in activeTransmissions :
                 k.userId = lives[c].codigo_stm /\ k.liveId = c
       /\ \A c \in DOMAIN transmissoes :
            transmissoes[c].status = "ativa"
            => \E k \in activeTransmissions :
                 k.userId = transmissoes[c].codigo_stm]_vars

\* The request received in this step (issued' = issued + 1), as it stands
\* after the step: suspended at its first await, or answered.
Arrives == issued' = issued + 1
Arrival ==
  IF inflight' # inflight
  THEN CHOOSE rq \in BagToSet(inflight') :
         CopiesIn(rq, inflight') > CopiesIn(rq, inflight)
  ELSE last'

\* C18: a POST /start received while the owner has a transmission 'ativa'
\* and no other request is in flight is answered at once with an error (the
\* conflict error when its fields and its playlist are good), and nothing is
\* inserted, changed or sent to the SMIL service.
C18_ConflictRejected ==
  [][(/\ Arrives
      /\ Arrival.kind = "start"
      /\ inflight = EmptyBag
      /\ \E c \in DOMAIN transmissoes :
           /\ transmissoes[c].codigo_stm = Arrival.owner
           /\ transmissoes[c].status = "ativa")
     => /\ inflight' = inflight
        /\ last'.pc = "done"
        /\ ~last'.resp.success
        /\ last'.resp.code \in {400, 404}
        /\ (/\ last'.missing = {}
            /\ last'.tid \in DOMAIN playlists
            /\ playlists[last'.tid].codigo_stm = last'.owner
            /\ playlists[last'.tid].total_videos > 0)
           => (last'.err = "conflict" /\ last'.resp.code = 400)
        /\ ~last'.smil
        /\ transmissoes' = transmissoes /\ nextTrans' = nextTrans
        /\ lives' = lives /\ procs' = procs]_vars

C18_Witness ==
  /\ last.kind = "start" /\ last.err = "conflict" /\ last.resp.code = 400
  /\ \E c \in DOMAIN transmissoes :
       transmissoes[c].codigo_stm = last.owner /\ transmissoes[c].status = "ativa"

\* C19: a start-live or start request that lacks a required field is
\* answered 400 at once; no row is inserted, no command reaches the remote
\* host, and no such request is ever suspended to run later.
C19_InvalidRejected ==
  [][/\ (/\ Arrives
         /\ Arrival.kind \in {"start_live", "start"}
         /\ Arrival.missing # {})
        => /\ inflight' = inflight
           /\ last'.pc = "done"
           /\ last'.resp.code = 400 /\ ~last'.resp.success
           /\ lives' = lives /\ nextLive' = nextLive
           /\ transmissoes' = transmissoes /\ nextTrans' = nextTrans
           /\ procs' = procs
     /\ \A rq \in BagToSet(inflight') : rq.missing = {}]_vars

C19_Witness ==
  /\ last.kind = "start_live" /\ last.missing = {"data_fim"}
  /\ last.resp.code = 400
  /\ lives = <<>> /\ procs = {}

\* C20: the start command is run only in the first step of a create request
\* after its INSERT, once: a request is at the start command only when it
\* has just arrived, with nothing run and nothing failed; a screen session
\* appears only in that step, and never for a record already Failed.
C20_NoAutomaticRetry ==
  [][/\ \A rq \in BagToSet(inflight') :
          rq.pc = "ssh_start"
          => /\ rq.log = <<>> /\ rq.err = "none"
             /\ \/ CopiesIn(rq, inflight) >= CopiesIn(rq, inflight')
                \/ Arrives
     /\ \A p \in procs' \ procs :
          /\ \E rq \in Requests :
               /\ Stepped(rq)
               /\ rq.kind = "start_live" /\ rq.pc = "ssh_start"
               /\ p = Proc(rq.owner, rq.id, rq.tipo, rq.stm)
          /\ p.id \in DOMAIN lives => lives[p.id].status # "3"]_vars

C20_Witness ==
  /\ last.kind = "start_live" /\ last.err = "ssh" /\ last.log = <<>>
  /\ last.resp.code = 500
  /\ last.id \in DOMAIN lives /\ lives[last.id].status = "3"
  /\ procs = {}

\* The targets whose configuration did not succeed, in a finished call.
FailedTargets == {a[1] : a \in {b \in Range(wowza.attempts) : b[2] # "ok"}}

\* C15: when the publisher started and all but one of the N targets failed,
\* the call returns success and its result reports those N-1 targets as
\* failed.
C15_PartialFanoutReported ==
  (/\ wowza.pc = "done"
   /\ wowza.publisher = "ok"
   /\ Len(wowza.platforms) >= 1
   /\ Cardinality(FailedTargets) = Len(wowza.platforms) - 1)
  => /\ wowza.result.success
     /\ wowza.result.failed = FailedTargets

\* C16: once the loop over the platforms is over, configurePushPublish has
\* been attempted once for each platform of the config, in order, whatever
\* the outcomes; and during the loop the attempts are the platforms before
\* the current one.
C16_EveryTargetAttempted ==
  /\ (wowza.pc = "done" /\ wowza.publisher = "ok")
     => [k \in 1..Len(wowza.attempts) |-> wowza.attempts[k][1]] = wowza.platforms
  /\ wowza.pc = "push"
     => [k \in 1..Len(wowza.attempts) |-> wowza.attempts[k][1]]
          = SubSeq(wowza.platforms, 1, wowza.i - 1)

C16_Witness ==
  /\ wowza.pc = "done"
  /\ Len(wowza.platforms) = 3
  /\ wowza.attempts = <<<<1, "throw">>, <<2, "error">>, <<3, "ok">>>>

\* C17: the call returns success exactly when the publisher start
\* succeeded: failed targets do not make it fail and the stream file stays
\* connected; when the publisher start failed no platform is attempted.
C17_SuccessIffPublisher ==
  wowza.pc = "done"
  => /\ wowza.result.success <=> wowza.publisher = "ok"
     /\ wowza.publisher = "ok" => wowza.login \in wowza.publishers
     /\ wowza.publisher # "ok" => (wowza.attempts = <<>> /\ wowza.pushes = {})

C17_Witness ==
  /\ wowza.pc = "done"
  /\ wowza.result.success
  /\ Len(wowza.platforms) = 2
  /\ FailedTargets = {1, 2}

\* C21: a status query writes nothing to the store: neither the step that
\* receives it nor its later step changes lives or transmissoes, also when
\* a live is declared Live and has no process on the host.
C21_StatusLeavesStore ==
  [][(\/ Arrives /\ Arrival.kind = "status"
      \/ \E rq \in Requests : Stepped(rq) /\ rq.kind = "status")
     => /\ lives' = lives /\ nextLive' = nextLive
        /\ transmissoes' = transmissoes /\ nextTrans' = nextTrans]_vars

C21_Witness ==
  /\ last.kind = "status" /\ last.pc = "done"
  /\ last.resp.is_live /\ last.resp.stream_type = "obs"
  /\ last.resp.sid \in DOMAIN lives
  /\ lives[last.resp.sid].status = "1"
  /\ OrphanedLive(lives, procs, last.owner) # {}

\* C22: when a stop-live that arrived after the start command of the live
\* and before the end of its verification has answered success, and the
\* start-live request then finishes, the live is left Stopped and has no
\* screen session.
C22_CancelDuringStart ==
  [][\A rq \in Requests :
       (/\ Answered(rq)
        /\ rq.kind = "start_live"
        /\ last.kind = "stop_live" /\ last.id = rq.id
        /\ last.resp.success
        /\ last.during \in {"wait", "check", "update"})
       => /\ rq.id \in DOMAIN lives' => lives'[rq.id].status = "0"
          /\ ~\E p \in procs' : p.login = rq.owner /\ p.id = rq.id]_vars

\* C28: a stop-live fails only when the SSH command itself throws; when no
\* screen session of the live exists the kill command still succeeds, and
\* the request records the live as Stopped with data_fim set to the time of
\* the update and answers success.
C28_StopToleratesNotFound ==
  [][\A rq \in Requests :
       (Stepped(rq) /\ rq.kind = "stop_live")
       => /\ (Answered(rq) /\ ~last'.resp.success) => last'.err = "ssh"
          /\ rq.pc = "update"
             => /\ last'.resp.success
                /\ rq.id \in DOMAIN lives
                   => /\ lives'[rq.id].status = "0"
                      /\ lives'[rq.id].data_fim = At(now')]_vars

C28_Witness ==
  /\ last.kind = "stop_live" /\ last.resp.success
  /\ last.log = <<"kill">> /\ last.count = 0
  /\ last.id \in DOMAIN lives
  /\ lives[last.id].status = "0"
  /\ lives[last.id].data_fim = At(now)

\* The catalog entry of the tipo carries the vertical-crop hint.
VerticalCropHint(tipo) ==
  tipo \in DOMAIN platforms /\ platforms[tipo] = "vertical_crop"

C25_ProvisionedBeforePublisher ==
  wowza.pc = "publisher" => wowza.login \in wowza.apps

\* C26: the caller of startStreamPublisher gets its success only in the
\* step that ends the settling wait, which is entered only when the
\* connect call answered ok; a connect call that failed hands its failure
\* to the caller in the same step, without the wait.
C26_SuccessAfterSettle ==
  [][/\ (wowza'.publisher = "ok" /\ wowza.publisher # "ok")
        => (wowza.pc = "settle" /\ wowza.login \in wowza.publishers)
     /\ (wowza'.pc = "settle" /\ wowza.pc # "settle")
        => /\ wowza.pc = "publisher"
           /\ wowza'.publisher = "none"
           /\ wowza.login \in wowza'.publishers
     /\ (wowza.pc = "publisher" /\ wowza'.pc # "settle")
        => /\ wowza'.publisher \in {"error", "throw"}
           /\ wowza'.pc = "done" /\ ~wowza'.result.success]_vars

C26_Witness ==
  /\ wowza.publisher = "ok" /\ wowza.pc = "push"
  /\ wowza.login \in wowza.publishers

\* C27: a call that timed out (its fetch threw) counts as failed: the
\* operation hands no success to its caller and the caller does not go on
\* as after a success. After a create call that threw the publisher is not
\* started; after a connect call that threw the result is a failure; a
\* push call that threw leaves no push entry.
C27_TimeoutIsFailure ==
  /\ wowza.created = "throw"
     => /\ wowza.pc \notin {"publisher", "settle", "push"}
        /\ ~wowza.result.success
  /\ wowza.publisher = "throw"
     => (wowza.pc = "done" /\ ~wowza.result.success)
  /\ \A a \in Range(wowza.attempts) :
       a[2] = "throw" => <<wowza.login, a[1]>> \notin wowza.pushes

\* The stream of a login by the two tiers: the first stream named exactly
\* as the login (or as its _live name), else the first whose name contains
\* the login; <<>> when there is none.
ExactIndexes(list, login) ==
  {k \in DOMAIN list : list[k].name \in {login, LiveName(login)}}
ContainIndexes(list, login) ==
  {k \in DOMAIN list : Includes(list[k].name, login)}
TwoTierName(list, login) ==
  IF ExactIndexes(list, login) # {}
  THEN list[First(ExactIndexes(list, login))].name
  ELSE IF ContainIndexes(list, login) # {}
       THEN list[First(ContainIndexes(list, login))].name
       ELSE <<>>

\* C23: a getOBSStreamStats call that got the list of incoming streams
\* reports the owner live with the stream the two tiers pick from that
\* list (an exactly named one before any that only contains the login),
\* and not live exactly when no stream of the list matches.
C23_TwoTierMatch ==
  (stats.pc = "done" /\ stats.fn = "obs" /\ stats.outcome = "ok")
  => /\ stats.ret.isLive <=> TwoTierName(stats.seen, stats.login) # <<>>
     /\ stats.ret.isLive
        => stats.ret.streamName = TwoTierName(stats.seen, stats.login)

\* C24: a getStreamStats or getOBSStreamStats call whose request got
\* another status than success, or timed out or failed in the transport,
\* hands its caller the zeroed statistics and no error.
C24_StatsNeverThrow ==
  (/\ stats.pc = "done" /\ stats.fn \in {"stream", "obs"}
   /\ stats.outcome \in {"error", "throw"})
  => /\ ~stats.rejected
     /\ stats.ret.viewers = 0 /\ stats.ret.bitrate = 0
     /\ stats.ret.uptime = <<0, 0, 0>> /\ ~stats.ret.isActive

Privileged == {"admin", "revenda"}

\* C30 (as stated): a block, unblock or remove request of a user whose
\* type is not admin or revenda is answered 403 and adds no call of the
\* service.
C30_ForbiddenIs403 ==
  [][(control'.n # control.n /\ UserType(control'.user) \notin Privileged)
     => (control'.status = 403 /\ control'.calls = control.calls)]_vars

\* C30: every call of the control service carries the type admin or
\* revenda and is made for a request of a user of that type; a request of
\* any other user adds no call and is answered at once, 400 when its body
\* has no login and 403 otherwise.
C30_ServiceOnlyForPrivileged ==
  [][/\ control'.calls # control.calls
        => /\ control'.n # control.n
           /\ UserType(control'.user) \in Privileged
           /\ control'.calls =
                Append(control.calls,
                       <<control'.op, control'.login, UserType(control'.user)>>)
     /\ (control'.n # control.n /\ UserType(control'.user) \notin Privileged)
        => /\ control'.calls = control.calls
           /\ control'.pc = "done"
           /\ control'.status =
                IF control'.login = "none" THEN 400 ELSE 403]_vars

C30_Witness ==
  /\ control.pc = "done" /\ control.status = 403
  /\ UserType(control.user) = "streaming" /\ control.login # "none"
  /\ control.n = MaxControl
  /\ Len(control.calls) = 1 /\ control.calls[1][3] = "revenda"

C33_LiveByOwnProcess ==
  (/\ last.kind = "start_live" /\ last.resp.code = 200
   /\ "player_urls" \in last.resp.keys)
  => last.own

\* C34: in every step that sets a lives record to Stopped ("0"), the
\* process of that session is not running afterwards.
C34_StoppedMeansTerminated ==
  [][\A c \in DOMAIN lives \cap DOMAIN lives' :
       (lives[c].status # "0" /\ lives'[c].status = "0")
       => ~OwnProcess(procs', lives[c].codigo_stm, c)]_vars

\* C38: a lives record is deleted only by a remove-live request whose kill
\* command has returned; a remove-live request whose kill command threw
\* leaves the store as it is and answers 500; and in the step that deletes
\* a record the process of that session is not running.
C38_RemoveAfterKill ==
  [][/\ \A c \in DOMAIN lives \ DOMAIN lives' :
          /\ \E rq \in BagToSet(inflight) :
               /\ rq.kind = "remove_live" /\ rq.id = c
               /\ rq.log = <<"kill">> /\ Answered(rq)
          /\ ~OwnProcess(procs', lives[c].codigo_stm, c)
     /\ (last' # last /\ last'.kind = "remove_live" /\ last'.err = "ssh")
        => /\ lives' = lives
           /\ last'.resp.code = 500 /\ ~last'.resp.success]_vars

\* C31: a step of a POST /stop request changes no transmissoes row and no
\* lives row that belongs to another user than the requester.
C31_StopTouchesOwnRows ==
  [][\A rq \in BagToSet(inflight) :
       (rq.kind = "stop" /\ Stepped(rq))
       => /\ \A c \in DOMAIN transmissoes :
               ~OwnedBy(transmissoes[c].codigo_stm, rq.owner)
               => transmissoes'[c] = transmissoes[c]
          /\ \A c \in DOMAIN lives :
               ~OwnedBy(lives[c].codigo_stm, rq.owner)
               => lives'[c] = lives[c]]_vars

\* The rows of a user that are declared active.
AtivaOf(tab, o) ==
  {c \in DOMAIN tab : tab[c].codigo_stm = o /\ tab[c].status = "ativa"}
LiveOnOf(tab, o) ==
  {c \in DOMAIN tab : tab[c].codigo_stm = o /\ tab[c].status = "1"}

\* C37 (as stated): when a cleanup returns success, the user has no
\* transmissoes row 'ativa' and no lives row '1'.
C37_NothingActiveAtReturn ==
  [][(last' # last /\ last'.kind = "cleanup" /\ last'.resp.success)
     => /\ AtivaOf(transmissoes', last'.owner) = {}
        /\ LiveOnOf(lives', last'.owner) = {}]_vars

\* C37: the first statement of a cleanup finalizes, with the end time set,
\* every transmissoes row of the user that is 'ativa' and changes nothing
\* else; its second statement does the same for the lives rows that are
\* '1', so that the user has none when the cleanup returns; rows of other
\* users are left as they are; cleaned_count is the number of rows the two
\* statements changed, 0 when there was none.
C37_CleanupPostcondition ==
  [][/\ (Arrives /\ Arrival.kind = "cleanup")
        => /\ AtivaOf(transmissoes', Arrival.owner) = {}
           /\ \A c \in DOMAIN transmissoes :
                IF c \in AtivaOf(transmissoes, Arrival.owner)
                THEN /\ transmissoes'[c].status = "finalizada"
                     /\ transmissoes'[c].data_fim # Null
                ELSE transmissoes'[c] = transmissoes[c]
           /\ lives' = lives
           /\ Arrival.count = Cardinality(AtivaOf(transmissoes, Arrival.owner))
     /\ \A rq \in BagToSet(inflight) :
          (rq.kind = "cleanup" /\ Stepped(rq))
          => /\ last'.kind = "cleanup" /\ last'.resp.success
             /\ LiveOnOf(lives', rq.owner) = {}
             /\ \A c \in DOMAIN lives :
                  IF c \in LiveOnOf(lives, rq.owner)
                  THEN lives'[c].status = "0" /\ lives'[c].data_fim # Null
                  ELSE lives'[c] = lives[c]
             /\ transmissoes' = transmissoes
             /\ last'.resp.cleaned =
                  rq.count + Cardinality(LiveOnOf(lives, rq.owner))]_vars

C37_Witness ==
  /\ last.kind = "cleanup" /\ last.resp.success /\ last.resp.cleaned = 1
  /\ inflight = EmptyBag
  /\ AtivaOf(transmissoes, last.owner) = {}
  /\ \E c \in DOMAIN transmissoes :
       transmissoes[c].codigo_stm = last.owner
       /\ transmissoes[c].status = "finalizada"
  /\ \E c \in DOMAIN transmissoes :
       transmissoes[c].codigo_stm # last.owner
       /\ transmissoes[c].status = "ativa"

\* C39: a stop-live or remove-live request for an id that has no lives row,
\* or whose row belongs to another user, is answered 404 at once: it is not
\* suspended (so it never reaches its kill command) and the store and the
\* remote processes are left as they are.
C39_NotFoundNoEffect ==
  [][(/\ Arrives
      /\ Arrival.kind \in {"stop_live", "remove_live"}
      /\ \/ Arrival.id \notin DOMAIN lives
         \/ lives[Arrival.id].codigo_stm # Arrival.owner)
     => /\ inflight' = inflight
        /\ last'.resp.code = 404 /\ ~last'.resp.success
        /\ lives' = lives /\ transmissoes' = transmissoes
        /\ procs' = procs /\ activeTransmissions' = activeTransmissions]_vars

C39_Witness ==
  /\ last.kind \in {"stop_live", "remove_live"} /\ last.resp.code = 404
  /\ last.id \in DOMAIN lives
  /\ lives[last.id].codigo_stm # last.owner
  /\ OwnProcess(procs, lives[last.id].codigo_stm, last.id)

\* C35: every transmission that is 'ativa' refers to a playlist that
\* exists.
C35_ActivePlaylistExists ==
  \A c \in DOMAIN transmissoes :
     transmissoes[c].status = "ativa"
     => transmissoes[c].codigo_playlist \in DOMAIN playlists

\* C36: when no request is in flight, the total_videos stored with each
\* playlist is the number of videos whose playlist_id is that playlist.
C36_TotalVideosIsCount ==
  inflight = EmptyBag
  => \A p \in DOMAIN playlists :
        playlists[p].total_videos = CountVideos(videos, p)

\* C40: checkUserLimits returns an allowed bitrate that is at most the
\* maximum of the plan: the requested one when it is at most the maximum,
\* the maximum when it is more or when none is requested; and it returns a
\* warning exactly when the requested bitrate is more than the maximum.
C40_AllowedWithinPlan ==
  limits.pc = "done"
  => /\ limits.max = (IF limits.bitrate # 0 THEN limits.bitrate
                      ELSE DefaultBitrate)
     /\ limits.allowed <= limits.max
     /\ limits.requested = 0 => limits.allowed = limits.max
     /\ (limits.requested # 0 /\ limits.requested <= limits.max)
        => limits.allowed = limits.requested
     /\ limits.requested > limits.max => limits.allowed = limits.max
     /\ limits.warnings > 0 <=> limits.requested > limits.max

C40_Witness ==
  /\ limits.pc = "done" /\ limits.bitrate = 1000 /\ limits.requested = 3000
  /\ limits.allowed = 1000 /\ limits.warnings = 1
====
